---- MODULE Spec2Model ----
(***************************************************************************)
(* The civic-issue portal: the backend store (tables, constraints, triggers*)
(* and row-level-security policies of the migrations, the photo bucket)    *)
(* and the page code that sends requests to it (IssueCard.handleUpvote,    *)
(* the two dashboards' role check and handleStatusChange,                  *)
(* Profile.handleDeleteIssue, Index.handleSubmitIssue, the feed queries    *)
(* and the header's role query).  Every request is one transaction of the  *)
(* store; a handler that awaits several requests is one action per request.*)
(***************************************************************************)
EXTENDS Integers, FiniteSets, Sequences, TLC

\* ------------------------------------------------------------------ bounds
MaxIssues == 1
MaxClock == 2
\* the longest list of rows a feed query is given to sort, and the largest
\* upvote count on a row of it
MaxFeed == 4
MaxCount == 3
\* the days an issue card is followed after the report
MaxDays == 31

\* --------------------------------------------------------------- constants
NullTime == 0
NoIssue == 0
ThirtyDays == 30
\* one day: 1000 * 60 * 60 * 24 ms, counted in seconds here
DayLength == 86400

Status == {"pending", "acknowledged", "work_done"}
app_role == {"student", "teacher", "hod", "principal"}
Departments == {"CS", "EC", "ME", "CE", "EE"}
\* the three test users, and an account that has just signed up
Users == {"student", "principal", "hod", "newcomer"}
NullDept == "null"

\* The role rows the test-user setup creates; signing up creates none.
TestUserRoles ==
  { [user_id |-> "student", role |-> "student"],
    [user_id |-> "principal", role |-> "principal"],
    [user_id |-> "hod", role |-> "hod"] }

\* The profile departments: the setup gives the student and the HoD one,
\* sign-up gives none.
profiles ==
  [u \in Users |->
     [department_id |-> IF u \in {"principal", "newcomer"} THEN NullDept ELSE "CS"]]

\* Browser sessions (one query cache and one set of page state each); the
\* student has the portal open in two tabs.
Sessions == {"student_tab1", "student_tab2", "hod_tab", "principal_tab", "newcomer_tab"}

auth_uid(s) ==
  CASE s \in {"student_tab1", "student_tab2"} -> "student"
    [] s = "hod_tab" -> "hod"
    [] s = "principal_tab" -> "principal"
    [] s = "newcomer_tab" -> "newcomer"

IssueIds == 1 .. MaxIssues
\* Departments offered to the report form in the model.
FormDepartments == {"CS", "EC"}

\* the photo the form holds: none, or a file with one of these extensions
NoPhoto == "none"
Photos == {"jpg", "png"}

Routes == {"/", "/profile", "/hod", "/principal"}

VARIABLES
  issues,      \* public.issues: issue id -> row, for the rows that exist
  nextId,      \* ids handed out so far (an id is never reused)
  upvotes,     \* public.upvotes: <<issue_id, user_id>> -> number of rows
  now,         \* the clock, in days
  view,        \* per session: the cached feed ['issues'], issue id -> hasUpvoted
  toast,       \* the notice raised last: who saw it, title, description
  delStep,     \* per session and issue: where handleDeleteIssue stands
  deletingId,  \* per session: Profile's deletingId state
  storage,     \* the objects of the bucket issue-photos
  uploaded,    \* per session: the submission whose photo is uploaded, row not yet inserted
  fetching,    \* per session and query: the rows an unfinished fetch has read
  mine,        \* per session: the cached own list ['my-issues'], issue id -> hasUpvoted
  user_roles,  \* public.user_roles
  location,    \* per session: the route shown
  hasRole,     \* per session: the dashboards' hasHodRole / hasPrincipalRole state
  roleCheck,   \* per session: the dashboards' role checks not yet answered
  hodProfile,  \* per session: the cached ['hod-profile'] department
  userRole,    \* per session: the header's cached ['user-role']
  feed,        \* the rows a feed query function holds, in order
  card,        \* an issue card rendered: the time since the report, the days left shown
  dashboard,   \* per session: the dashboards' issue lists and the principal's filter
  annotated    \* per session and issue: the lookups of an unfinished annotation

submitVars == <<storage, uploaded>>
cacheVars == <<fetching, mine>>
roleVars == <<user_roles, location, hasRole, roleCheck, hodProfile, userRole>>
viewVars == <<card, dashboard, annotated>>

vars == <<issues, nextId, upvotes, now, view, toast, delStep, deletingId,
          submitVars, cacheVars, roleVars, feed, viewVars>>

\* the ids some page may still show: those of the rows ever inserted
KnownIds == 1 .. nextId

NoToast == [session |-> "none", title |-> "none", description |-> "none"]
Notice(s, t, d) == [session |-> s, title |-> t, description |-> d]

\* error.message of the failures the store reports
NoError == "none"
DuplicateKey == "duplicate key value violates unique constraint"
ForeignKey == "violates foreign key constraint"
StorageError == "upload failed"
AlreadyExists == "The resource already exists"

\* ---------------------------------------------------- row-level security
has_role(_user_id, _role) ==
  \E r \in user_roles : r.user_id = _user_id /\ r.role = _role

HodsCanUpdateNoDept(uid, row) == has_role(uid, "hod")
\* "HoDs can update issues in their department"
HodsCanUpdate(uid, row) ==
  /\ has_role(uid, "hod")
  /\ row.department_id \in {profiles[p].department_id : p \in {uid}}

PrincipalsCanUpdateAnyone(uid, row) == TRUE
\* "Principals can update any issue"
PrincipalsCanUpdate(uid, row) == has_role(uid, "principal")

CanUpdateIssuePrincipalOnly(uid, row) == PrincipalsCanUpdate(uid, row)
\* permissive policies of one command are OR-ed
CanUpdateIssue(uid, row) == HodsCanUpdate(uid, row) \/ PrincipalsCanUpdate(uid, row)

\* "Users can create issues"
UsersCanCreateIssues(uid, row) == row.reporter_id = uid

\* "Users can delete their own issues"
UsersCanDeleteOwnIssues(uid, row) == row.reporter_id = uid

\* ------------------------------------------------------------ the tables
NewIssueNoDefaults(reporter, dept, photoUrl, t) ==
  [ reporter_id |-> reporter,
    department_id |-> dept,
    photo_url |-> photoUrl,
    status |-> "acknowledged",
    is_priority |-> FALSE,
    reported_at |-> t,
    deadline |-> t,
    resolved_at |-> NullTime,
    updated_at |-> t ]
\* A new row of public.issues: the inserted columns and the column defaults.
NewIssue(reporter, dept, photoUrl, t) ==
  [ reporter_id |-> reporter,
    department_id |-> dept,
    photo_url |-> photoUrl,
    status |-> "pending",
    is_priority |-> FALSE,
    reported_at |-> t,
    deadline |-> t + ThirtyDays,
    resolved_at |-> NullTime,
    updated_at |-> t ]

UniqueIssueUserOff(tbl, i, u) == FALSE
\* UNIQUE(issue_id, user_id) of public.upvotes: would one more row clash?
UniqueIssueUser(tbl, i, u) == tbl[<<i, u>>] >= 1

\* insert({issue_id, user_id}) into public.upvotes
InsertUpvote(tbl, i, u) ==
  IF i \notin DOMAIN issues
    THEN [rows |-> tbl, error |-> ForeignKey]
    ELSE IF UniqueIssueUser(tbl, i, u)
      THEN [rows |-> tbl, error |-> DuplicateKey]
      ELSE [rows |-> [tbl EXCEPT ![<<i, u>>] = @ + 1], error |-> NoError]

DeleteUpvoteAllUsers(tbl, i, u) ==
  [rows |-> [p \in DOMAIN tbl |-> IF p[1] = i THEN 0 ELSE tbl[p]], error |-> NoError]
\* delete().eq('issue_id', i).eq('user_id', u) on public.upvotes
DeleteUpvote(tbl, i, u) ==
  [rows |-> [tbl EXCEPT ![<<i, u>>] = 0], error |-> NoError]

\* The feed query's two lookups per issue.
upvoteCountOfViewer(tbl, i) == tbl[<<i, "student">>]
upvoteCount(tbl, i) ==
  LET RECURSIVE Sum(_)
      Sum(S) == IF S = {} THEN 0
                ELSE LET u == CHOOSE x \in S : TRUE
                     IN tbl[<<i, u>>] + Sum(S \ {u})
  IN Sum(Users)

\* .single() yields a row only when exactly one row matches
hasUpvoted(tbl, i, u) == tbl[<<i, u>>] = 1

\* ------------------------------------------------------- the photo bucket
NoUpload == [department_id |-> NullDept, fileName |-> << >>]
NullUrl == << >>

\* `${user.id}/${Date.now()}.${fileExt}`
fileNameOf(uid, t, fileExt) == <<uid, t, fileExt>>

\* storage.from('issue-photos').upload(fileName, photo), without upsert
UploadPhoto(objs, fileName, reachable) ==
  IF ~reachable THEN [objects |-> objs, error |-> StorageError]
  ELSE IF fileName \in objs THEN [objects |-> objs, error |-> AlreadyExists]
  ELSE [objects |-> objs \cup {fileName}, error |-> NoError]

getPublicUrlOfBucket(fileName) == <<"issue-photos">>
\* storage.from('issue-photos').getPublicUrl(fileName)
getPublicUrl(fileName) == <<"issue-photos", fileName>>

\* the object a public URL resolves to, if the bucket holds it
Resolves(objs, url) == Len(url) = 2 /\ url[1] = "issue-photos" /\ url[2] \in objs

\* --------------------------------------------------------- the query caches
NoFetch == {NoIssue}
Idle == [issues |-> NoFetch, mine |-> NoFetch]

\* refetch() of a query: an unfinished fetch is dropped and a new one reads
\* the rows
refetchKeepsUnfinished(unfinished, rows) == IF unfinished = NoFetch THEN rows ELSE unfinished
refetch(unfinished, rows) == rows

\* the dashboards' page state and issue lists before any fetch
NoDashboard == [hodIssues |-> << >>, selectedDepartment |-> "all", principalIssues |-> << >>]

\* no card rendered yet
NoCard == [rendered |-> FALSE, reported_at |-> 0, elapsed |-> 0, daysRemaining |-> 0]

\* the two lookups of a row, none made yet
NotAnnotated == [step |-> "idle", upvoteCount |-> 0, hasUpvoted |-> FALSE]

\* ------------------------------------------------------------------ Init
Init ==
  /\ issues = << >>
  /\ nextId = 0
  /\ upvotes = [p \in IssueIds \X Users |-> 0]
  /\ now = 1
  /\ view = [s \in Sessions |-> << >>]
  /\ toast = NoToast
  /\ delStep = [s \in Sessions |-> [i \in IssueIds |-> "idle"]]
  /\ deletingId = [s \in Sessions |-> NoIssue]
  /\ storage = {}
  /\ uploaded = [s \in Sessions |-> NoUpload]
  /\ fetching = [s \in Sessions |-> Idle]
  /\ mine = [s \in Sessions |-> << >>]
  /\ user_roles = TestUserRoles
  /\ location = [s \in Sessions |-> "/"]
  /\ hasRole = [s \in Sessions |-> [hod |-> FALSE, principal |-> FALSE]]
  /\ roleCheck = [s \in Sessions |-> {}]
  /\ hodProfile = [s \in Sessions |-> NullDept]
  /\ userRole = [s \in Sessions |-> "undefined"]
  /\ feed = << >>
  /\ card = NoCard
  /\ dashboard = [s \in Sessions |-> NoDashboard]
  /\ annotated = [s \in Sessions |-> [i \in IssueIds |-> NotAnnotated]]

Tick ==
  /\ now < MaxClock
  /\ now' = now + 1
  /\ UNCHANGED <<issues, nextId, upvotes, view, toast, delStep, deletingId,
                 submitVars, cacheVars, roleVars, feed, viewVars>>

\* ------------------------------------------------------- Index: the form
\* insert({reporter_id, department_id, ..., photo_url}) into public.issues
InsertIssue(tbl, uid, id, row) ==
  IF UsersCanCreateIssues(uid, row)
    THEN [j \in DOMAIN tbl \cup {id} |-> IF j = id THEN row ELSE tbl[j]]
    ELSE tbl

\* submissions under way that will still insert a row
Uploading == {s \in Sessions : uploaded[s] # NoUpload}

\* The submit click: without a photo the row is inserted at once; with one,
\* the upload is the first request and its failure ends the handler.
handleSubmitIssue(s, dept, photo, reachable) ==
  /\ location[s] = "/"
  /\ uploaded[s] = NoUpload
  /\ nextId + Cardinality(Uploading) < MaxIssues
  /\ IF photo = NoPhoto
       THEN /\ issues' = InsertIssue(issues, auth_uid(s), nextId + 1,
                                     NewIssue(auth_uid(s), dept, NullUrl, now))
            /\ nextId' = nextId + 1
            /\ toast' = Notice(s, "Issue reported", "Your issue has been successfully reported.")
            /\ fetching' = [fetching EXCEPT ![s].issues = refetch(@, DOMAIN issues')]
            /\ UNCHANGED <<storage, uploaded>>
       ELSE LET fileName == fileNameOf(auth_uid(s), now, photo)
                res == UploadPhoto(storage, fileName, reachable)
            IN /\ storage' = res.objects
               /\ IF res.error # NoError
                    THEN /\ toast' = Notice(s, "Error", res.error)
                         /\ UNCHANGED uploaded
                    ELSE /\ uploaded' = [uploaded EXCEPT ![s] =
                                           [department_id |-> dept, fileName |-> fileName]]
                         /\ UNCHANGED toast
               /\ UNCHANGED <<issues, nextId, fetching>>
  /\ UNCHANGED <<upvotes, now, view, delStep, deletingId, mine, roleVars, feed, viewVars>>

\* The second request of a submission with a photo: the insert.
SubmitInsert(s) ==
  /\ uploaded[s] # NoUpload
  /\ issues' = InsertIssue(issues, auth_uid(s), nextId + 1,
                           NewIssue(auth_uid(s), uploaded[s].department_id,
                                    getPublicUrl(uploaded[s].fileName), now))
  /\ nextId' = nextId + 1
  /\ toast' = Notice(s, "Issue reported", "Your issue has been successfully reported.")
  /\ uploaded' = [uploaded EXCEPT ![s] = NoUpload]
  /\ fetching' = [fetching EXCEPT ![s].issues = refetch(@, DOMAIN issues')]
  /\ UNCHANGED <<upvotes, now, view, delStep, deletingId, storage, mine, roleVars, feed, viewVars>>

\* ------------------------------------------------ Index: the feed query
\* what the query function returns for the issue rows it has read
Annotate(ids, uid) == [i \in ids |-> hasUpvoted(upvotes, i, uid)]

\* refetch(): a fetch of the feed that nothing interleaves with
RefetchFeed(s) ==
  /\ view' = [view EXCEPT ![s] = Annotate(DOMAIN issues, auth_uid(s))]
  /\ UNCHANGED <<issues, nextId, upvotes, now, toast, delStep, deletingId,
                 submitVars, cacheVars, roleVars, feed, viewVars>>

\* The feed query's first request, on the home page: read the issue rows.
FeedFetchStart(s) ==
  /\ location[s] = "/"
  /\ fetching[s].issues = NoFetch
  /\ fetching' = [fetching EXCEPT ![s].issues = DOMAIN issues]
  /\ UNCHANGED <<issues, nextId, upvotes, now, view, toast, delStep, deletingId,
                 submitVars, mine, roleVars, feed, viewVars>>

\* Its lookups per row read, and the write of the result into the cache;
\* a fetch goes on when its page is left.
FeedFetchFinish(s) ==
  /\ fetching[s].issues # NoFetch
  /\ view' = [view EXCEPT ![s] = Annotate(fetching[s].issues, auth_uid(s))]
  /\ fetching' = [fetching EXCEPT ![s].issues = NoFetch]
  /\ UNCHANGED <<issues, nextId, upvotes, now, toast, delStep, deletingId,
                 submitVars, mine, roleVars, feed, viewVars>>

\* ---------------------------------------------- Profile: the own-list query
\* .eq('reporter_id', user.id)
OwnIssues(tbl, uid) == {i \in DOMAIN tbl : tbl[i].reporter_id = uid}

MineFetchStart(s) ==
  /\ location[s] = "/profile"
  /\ fetching[s].mine = NoFetch
  /\ fetching' = [fetching EXCEPT ![s].mine = OwnIssues(issues, auth_uid(s))]
  /\ UNCHANGED <<issues, nextId, upvotes, now, view, toast, delStep, deletingId,
                 submitVars, mine, roleVars, feed, viewVars>>

MineFetchFinish(s) ==
  /\ fetching[s].mine # NoFetch
  /\ mine' = [mine EXCEPT ![s] = Annotate(fetching[s].mine, auth_uid(s))]
  /\ fetching' = [fetching EXCEPT ![s].mine = NoFetch]
  /\ UNCHANGED <<issues, nextId, upvotes, now, view, toast, delStep, deletingId,
                 submitVars, roleVars, feed, viewVars>>

\* ------------------------------------------------- IssueCard: the toggle
\* The request handleUpvote sends, chosen by the card's hasUpvoted prop.
UpvoteRequest(tbl, prop, i, u) ==
  IF prop THEN DeleteUpvote(tbl, i, u) ELSE InsertUpvote(tbl, i, u)

handleUpvote(s, i) ==
  /\ i \in DOMAIN view[s]
  /\ LET res == UpvoteRequest(upvotes, view[s][i], i, auth_uid(s))
     IN /\ upvotes' = res.rows
        /\ toast' = IF res.error # NoError
                      THEN Notice(s, "Error", res.error)
                      ELSE toast
  /\ UNCHANGED <<issues, nextId, now, view, delStep, deletingId,
                 submitVars, cacheVars, roleVars, feed, viewVars>>

\* ------------------------------------------ dashboards: the status select
StatusPayloadStatusOnly(newStatus, t) == [status |-> newStatus]
\* The object handed to update(): status, and resolved_at for work_done only.
StatusPayload(newStatus, t) ==
  IF newStatus = "work_done"
    THEN [status |-> newStatus, resolved_at |-> t]
    ELSE [status |-> newStatus]

ApplyPayloadAndDepartment(row, payload) ==
  [row EXCEPT !.status = payload.status, !.department_id = NullDept]
ApplyPayload(row, payload) ==
  [row EXCEPT !.status = payload.status,
              !.resolved_at = IF "resolved_at" \in DOMAIN payload
                                THEN payload.resolved_at ELSE @]

update_timestamp_columns(row, t) ==
  [row EXCEPT !.updated_at = t,
              !.resolved_at = IF row.status = "work_done" THEN @ ELSE NullTime]
\* the trigger update_issues_updated_at, before every update of a row
update_updated_at_column(row, t) == [row EXCEPT !.updated_at = t]

\* update(payload).eq('id', i) as uid: the rows the policies hide are not
\* touched, and touching no row is no error.
UpdateIssue(tbl, uid, i, payload, t) ==
  [ rows |-> [j \in DOMAIN tbl |->
                IF j = i /\ CanUpdateIssue(uid, tbl[j])
                  THEN update_updated_at_column(ApplyPayload(tbl[j], payload), t)
                  ELSE tbl[j]],
    error |-> NoError ]

handleStatusChange(s, i, newStatus) ==
  /\ i \in KnownIds
  /\ LET res == UpdateIssue(issues, auth_uid(s), i, StatusPayload(newStatus, now), now)
     IN /\ issues' = res.rows
        /\ toast' = IF res.error # NoError
                      THEN Notice(s, "Update Failed", res.error)
                      ELSE Notice(s, "Status Updated",
                                  "Issue status has been updated successfully.")
  /\ UNCHANGED <<nextId, upvotes, now, view, delStep, deletingId,
                 submitVars, cacheVars, roleVars, feed, viewVars>>

HodHandleStatusChange(s, i, newStatus) == handleStatusChange(s, i, newStatus)

PrincipalHandleStatusChange(s, i, newStatus) == handleStatusChange(s, i, newStatus)

\* ------------------------------------------------- Profile: delete a report
NotTheReporterOff(tbl, uid, i) == FALSE
\* issueCheck && issueCheck.reporter_id !== user.id
NotTheReporter(tbl, uid, i) == i \in DOMAIN tbl /\ tbl[i].reporter_id # uid

\* delete().eq('id', i).eq('reporter_id', uid) as uid
DeleteIssueRows(tbl, uid, i) ==
  [j \in {k \in DOMAIN tbl :
            ~(k = i /\ tbl[k].reporter_id = uid /\ UsersCanDeleteOwnIssues(uid, tbl[k]))}
     |-> tbl[j]]

CascadeUpvotesOff(tbl, remaining) == tbl
\* ON DELETE CASCADE of upvotes.issue_id
CascadeUpvotes(tbl, remaining) ==
  [p \in DOMAIN tbl |-> IF p[1] \in remaining THEN tbl[p] ELSE 0]

\* the click, and the first request: read the row's reporter
handleDeleteIssue(s, i) ==
  /\ i \in KnownIds
  /\ deletingId[s] # i
  /\ delStep[s][i] = "idle"
  /\ IF NotTheReporter(issues, auth_uid(s), i)
       THEN /\ toast' = Notice(s, "Delete failed", "You are not the reporter of this issue")
            /\ deletingId' = [deletingId EXCEPT ![s] = NoIssue]
            /\ UNCHANGED delStep
       ELSE /\ deletingId' = [deletingId EXCEPT ![s] = i]
            /\ delStep' = [delStep EXCEPT ![s][i] = "delete"]
            /\ UNCHANGED toast
  /\ UNCHANGED <<issues, nextId, upvotes, now, view, submitVars, cacheVars, roleVars, feed, viewVars>>

\* the second request: the delete
DeleteRequest(s, i) ==
  /\ delStep[s][i] = "delete"
  /\ issues' = DeleteIssueRows(issues, auth_uid(s), i)
  /\ upvotes' = CascadeUpvotes(upvotes, DOMAIN issues')
  /\ delStep' = [delStep EXCEPT ![s][i] = "verify"]
  /\ UNCHANGED <<nextId, now, view, toast, deletingId, submitVars, cacheVars, roleVars, feed, viewVars>>

\* setQueriesData(..., old => old.filter(x => x.id !== issueId))
EvictKeepsAll(data, i) == data
Evict(data, i) == [j \in DOMAIN data \ {i} |-> data[j]]

\* invalidateQueries({queryKey}) on the cache entry of a query: the query of
\* the page shown drops its unfinished fetch and fetches anew before the
\* handler goes on; the query of another page is only marked stale, and an
\* unfinished fetch of it goes on.
Invalidated(active, data, fresh) == IF active THEN fresh ELSE data
Refetching(active, unfinished) == IF active THEN NoFetch ELSE unfinished

\* the third request: count the rows left, then patch the caches, invalidate
\* them and notify
DeleteVerify(s, i) ==
  /\ delStep[s][i] = "verify"
  /\ IF i \in DOMAIN issues
       THEN /\ toast' = Notice(s, "Delete failed", "Delete did not apply due to permissions")
            /\ UNCHANGED <<view, mine, fetching>>
       ELSE /\ toast' = Notice(s, "Issue deleted", "Your report has been removed.")
            /\ view' = [view EXCEPT ![s] =
                          Invalidated(location[s] = "/", Evict(view[s], i),
                                      Annotate(DOMAIN issues, auth_uid(s)))]
            /\ mine' = [mine EXCEPT ![s] =
                          Invalidated(location[s] = "/profile", Evict(mine[s], i),
                                      Annotate(OwnIssues(issues, auth_uid(s)), auth_uid(s)))]
            /\ fetching' = [fetching EXCEPT ![s] =
                  [issues |-> Refetching(location[s] = "/", fetching[s].issues),
                   mine |-> Refetching(location[s] = "/profile", fetching[s].mine)]]
  /\ delStep' = [delStep EXCEPT ![s][i] = "idle"]
  /\ deletingId' = [deletingId EXCEPT ![s] = NoIssue]
  /\ UNCHANGED <<issues, nextId, upvotes, now, submitVars, roleVars, feed, viewVars>>

\* ------------------------------------------------------------- navigation
DashRoute(k) == IF k = "hod" THEN "/hod" ELSE "/principal"

\* the role checks the effect of the page entered starts
ChecksOf(route) ==
  IF route = "/hod" THEN {"hod"} ELSE IF route = "/principal" THEN {"principal"} ELSE {}

NoRoleState == [hod |-> FALSE, principal |-> FALSE]

\* useState('all') of selectedDepartment: a page shown anew starts with the
\* filter 'all' and the list cached for it
Unmounted(d) ==
  IF d.selectedDepartment = "all" THEN d
  ELSE [d EXCEPT !.selectedDepartment = "all", !.principalIssues = << >>]

\* navigate(route): the page left is unmounted and its state dropped, the
\* page entered starts with hasHodRole / hasPrincipalRole false
Navigate(s, route) ==
  /\ route # location[s]
  /\ location' = [location EXCEPT ![s] = route]
  /\ hasRole' = [hasRole EXCEPT ![s] = NoRoleState]
  /\ roleCheck' = [roleCheck EXCEPT ![s] = @ \cup ChecksOf(route)]
  /\ dashboard' = [dashboard EXCEPT ![s] = Unmounted(@)]
  /\ UNCHANGED <<issues, nextId, upvotes, now, view, toast, delStep, deletingId,
                 submitVars, cacheVars, user_roles, hodProfile, userRole, feed,
                 card, annotated>>

\* ------------------------------------------------ dashboards: the role check
RoleRowAlways(tbl, uid, k) == TRUE
\* select('role').eq('user_id', uid).eq('role', k).single(): data, or none
RoleRow(tbl, uid, k) ==
  Cardinality({r \in tbl : r.user_id = uid /\ r.role = k}) = 1

RoleCheckDataFailOpen(tbl, uid, k, reachable) == ~reachable \/ RoleRow(tbl, uid, k)
\* the data of the check's answer: null when the query failed
RoleCheckData(tbl, uid, k, reachable) == reachable /\ RoleRow(tbl, uid, k)

AccessDenied(k) ==
  IF k = "hod" THEN "You do not have HOD access." ELSE "You do not have Principal access."

\* the .then() of the role check, which runs whether or not its page is
\* still shown; setState of a page no longer shown does nothing
RoleCheckDone(s, k, reachable) ==
  /\ k \in roleCheck[s]
  /\ roleCheck' = [roleCheck EXCEPT ![s] = @ \ {k}]
  /\ IF ~RoleCheckData(user_roles, auth_uid(s), k, reachable)
       THEN /\ toast' = Notice(s, "Access Denied", AccessDenied(k))
            /\ location' = [location EXCEPT ![s] = "/"]
            /\ hasRole' = [hasRole EXCEPT ![s] =
                             IF location[s] = "/" THEN @ ELSE NoRoleState]
            /\ dashboard' = [dashboard EXCEPT ![s] =
                               IF location[s] = "/" THEN @ ELSE Unmounted(@)]
       ELSE /\ hasRole' = [hasRole EXCEPT ![s][k] = (@ \/ location[s] = DashRoute(k))]
            /\ UNCHANGED <<toast, location, dashboard>>
  /\ UNCHANGED <<issues, nextId, upvotes, now, view, delStep, deletingId,
                 submitVars, cacheVars, user_roles, hodProfile, userRole, feed,
                 card, annotated>>

\* the ['hod-profile'] query, enabled: !!user && hasHodRole
HodProfileQuery(s) ==
  /\ hasRole[s].hod
  /\ hodProfile' = [hodProfile EXCEPT ![s] = profiles[auth_uid(s)].department_id]
  /\ UNCHANGED <<issues, nextId, upvotes, now, view, toast, delStep, deletingId,
                 submitVars, cacheVars, user_roles, location, hasRole, roleCheck,
                 userRole, feed, viewVars>>

\* enabled: !!profile?.department_id of ['hod-issues']
HodIssuesEnabled(s) == location[s] = "/hod" /\ hodProfile[s] # NullDept

\* enabled: hasPrincipalRole of ['principal-issues']
PrincipalIssuesEnabled(s) == location[s] = "/principal" /\ hasRole[s].principal

\* what is rendered past the spinner: if (loading || !hasHodRole) return ...
DashboardContent(s, k) == location[s] = DashRoute(k) /\ hasRole[s][k]

\* ------------------------------------------------- Header: the role query
\* select('role').eq('user_id', uid).single(); if (error) return null
HeaderRole(tbl, uid) ==
  LET rows == {r \in tbl : r.user_id = uid}
  IN IF Cardinality(rows) = 1 THEN (CHOOSE r \in rows : TRUE).role ELSE "null"

HeaderRoleQuery(s, reachable) ==
  /\ userRole' = [userRole EXCEPT ![s] =
                     IF reachable THEN HeaderRole(user_roles, auth_uid(s)) ELSE "null"]
  /\ UNCHANGED <<issues, nextId, upvotes, now, view, toast, delStep, deletingId,
                 submitVars, cacheVars, user_roles, location, hasRole, roleCheck,
                 hodProfile, feed, viewVars>>

\* {userRole === 'hod' && ...} and {userRole === 'principal' && ...}
HodLink(s) == userRole[s] = "hod"
PrincipalLink(s) == userRole[s] = "principal"

\* An administrator gives a user a role: insert({user_id, role}) with the
\* service key, under UNIQUE(user_id, role).
AssignRole(u, r) ==
  /\ [user_id |-> u, role |-> r] \notin user_roles
  /\ user_roles' = user_roles \cup {[user_id |-> u, role |-> r]}
  /\ UNCHANGED <<issues, nextId, upvotes, now, view, toast, delStep, deletingId,
                 submitVars, cacheVars, location, hasRole, roleCheck, hodProfile,
                 userRole, feed, viewVars>>

\* ------------------------------------------- the feed queries: the sort
\* (a, b) => b.upvoteCount - a.upvoteCount
compareFn(a, b) == b.upvoteCount - a.upvoteCount

InsertBeforeEquals(sorted, x) ==
  LET p == Cardinality({k \in 1 .. Len(sorted) : compareFn(x, sorted[k]) > 0})
  IN SubSeq(sorted, 1, p) \o <<x>> \o SubSeq(sorted, p + 1, Len(sorted))
\* a row put into a sorted list behind every row that does not compare
\* greater: Array.prototype.sort is stable
InsertSorted(sorted, x) ==
  LET p == Cardinality({k \in 1 .. Len(sorted) : compareFn(x, sorted[k]) >= 0})
  IN SubSeq(sorted, 1, p) \o <<x>> \o SubSeq(sorted, p + 1, Len(sorted))

RECURSIVE sort(_)
sort(rows) ==
  IF rows = << >> THEN << >>
  ELSE InsertSorted(sort(SubSeq(rows, 1, Len(rows) - 1)), rows[Len(rows)])

\* the lists of upvote counts the rows read can have
CountLists == UNION {[1 .. n -> 0 .. MaxCount] : n \in 0 .. MaxFeed}

\* The annotated rows of a fetch, in the order the store returned them.
FeedArrives(counts) ==
  /\ feed = << >>
  /\ counts # << >>
  /\ feed' = [k \in 1 .. Len(counts) |-> [id |-> k, upvoteCount |-> counts[k]]]
  /\ UNCHANGED <<issues, nextId, upvotes, now, view, toast, delStep, deletingId,
                 submitVars, cacheVars, roleVars, viewVars>>

\* if (sortBy === 'upvotes') return issuesWithUpvotes.sort(...)
SortFeed(sortBy) ==
  /\ feed # << >>
  /\ feed' = IF sortBy = "upvotes" THEN sort(feed) ELSE feed
  /\ UNCHANGED <<issues, nextId, upvotes, now, view, toast, delStep, deletingId,
                 submitVars, cacheVars, roleVars, viewVars>>

\* ------------------------------------------------ IssueCard: the days left
\* Math.ceil(a / b) for b > 0
ceil(a, b) == -((-a) \div b)

\* the column default of deadline, on the card's clock of seconds
deadlineOf(reported_at) == reported_at + ThirtyDays * DayLength

daysRemainingFloor(deadline, t) == (deadline - t) \div DayLength
\* Math.ceil((new Date(issue.deadline).getTime() - Date.now()) / one day)
daysRemaining(deadline, t) == ceil(deadline - t, DayLength)

\* the times within a day at which a report is made and a card is rendered
DayOffsets == {0, 1, DayLength \div 2, DayLength - 1}
Elapsed == {k * DayLength + d : k \in 0 .. MaxDays, d \in DayOffsets}

\* The card of an issue reported at reported_at is rendered after elapsed.
RenderCard(reported_at, elapsed) ==
  /\ card' = [rendered |-> TRUE,
              reported_at |-> reported_at,
              elapsed |-> elapsed,
              daysRemaining |-> daysRemaining(deadlineOf(reported_at),
                                              reported_at + elapsed)]
  /\ UNCHANGED <<issues, nextId, upvotes, now, view, toast, delStep, deletingId,
                 submitVars, cacheVars, roleVars, feed, dashboard, annotated>>

\* ------------------------------------------- dashboards: the issue lists
HodIssuesRowsAll(tbl, dept) == tbl
\* select(...).eq('department_id', profile.department_id)
HodIssuesRows(tbl, dept) ==
  [i \in {j \in DOMAIN tbl : tbl[j].department_id = dept} |-> tbl[i]]

\* select(...), and .eq('department_id', selectedDepartment) unless 'all'
PrincipalIssuesRows(tbl, selectedDepartment) ==
  [i \in {j \in DOMAIN tbl : selectedDepartment = "all"
                             \/ tbl[j].department_id = selectedDepartment} |-> tbl[i]]

\* the ['hod-issues', department] query
HodIssuesQuery(s) ==
  /\ HodIssuesEnabled(s)
  /\ dashboard' = [dashboard EXCEPT ![s].hodIssues = HodIssuesRows(issues, hodProfile[s])]
  /\ UNCHANGED <<issues, nextId, upvotes, now, view, toast, delStep, deletingId,
                 submitVars, cacheVars, roleVars, feed, card, annotated>>

\* the ['principal-issues', selectedDepartment] query
PrincipalIssuesQuery(s) ==
  /\ PrincipalIssuesEnabled(s)
  /\ dashboard' = [dashboard EXCEPT ![s].principalIssues =
                     PrincipalIssuesRows(issues, dashboard[s].selectedDepartment)]
  /\ UNCHANGED <<issues, nextId, upvotes, now, view, toast, delStep, deletingId,
                 submitVars, cacheVars, roleVars, feed, card, annotated>>

\* .in('code', ['CS', 'EE', 'ME', 'HU']) of the ['departments'] query
PrincipalDepartments == {d \in Departments : d \in {"CS", "EE", "ME", "HU"}}

\* onValueChange={setSelectedDepartment} of the filter: 'all' or one of the
\* departments listed; the new key has no list until its query returns
setSelectedDepartment(s, d) ==
  /\ DashboardContent(s, "principal")
  /\ d \in PrincipalDepartments \cup {"all"}
  /\ d # dashboard[s].selectedDepartment
  /\ dashboard' = [dashboard EXCEPT ![s].selectedDepartment = d,
                                    ![s].principalIssues = << >>]
  /\ UNCHANGED <<issues, nextId, upvotes, now, view, toast, delStep, deletingId,
                 submitVars, cacheVars, roleVars, feed, card, annotated>>

\* the overview cards of the principal
stats(rows) ==
  [ total |-> Cardinality(DOMAIN rows),
    pending |-> Cardinality({i \in DOMAIN rows : rows[i].status = "pending"}),
    acknowledged |-> Cardinality({i \in DOMAIN rows : rows[i].status = "acknowledged"}),
    resolved |-> Cardinality({i \in DOMAIN rows : rows[i].status = "work_done"}),
    priority |-> Cardinality({i \in DOMAIN rows : rows[i].is_priority}) ]

\* the Department Overview: one card per department of the departments query
departmentStats(departments, rows) ==
  [ d \in departments |->
      [ total |-> Cardinality({i \in DOMAIN rows : rows[i].department_id = d}),
        pending |-> Cardinality({i \in DOMAIN rows :
                                   rows[i].department_id = d /\ rows[i].status = "pending"}) ] ]

\* --------------------------------------- Index: the lookups of a feed fetch
\* The first lookup of a row the fetch has read: the count of its upvotes.
CountLookup(s, i) ==
  /\ i \in fetching[s].issues
  /\ annotated[s][i].step = "idle"
  /\ annotated' = [annotated EXCEPT ![s][i] =
                     [step |-> "counted",
                      upvoteCount |-> upvoteCount(upvotes, i),
                      hasUpvoted |-> FALSE]]
  /\ UNCHANGED <<issues, nextId, upvotes, now, view, toast, delStep, deletingId,
                 submitVars, cacheVars, roleVars, feed, card, dashboard>>

\* The second lookup of the row: the viewer's own upvote.
ViewerLookup(s, i) ==
  /\ annotated[s][i].step = "counted"
  /\ annotated' = [annotated EXCEPT ![s][i].step = "done",
                                    ![s][i].hasUpvoted = hasUpvoted(upvotes, i, auth_uid(s))]
  /\ UNCHANGED <<issues, nextId, upvotes, now, view, toast, delStep, deletingId,
                 submitVars, cacheVars, roleVars, feed, card, dashboard>>

\* Promise.all is settled: the fetch returns its rows to the cache.
FeedResult(s) ==
  /\ fetching[s].issues # NoFetch
  /\ \A i \in fetching[s].issues : annotated[s][i].step = "done"
  /\ view' = [view EXCEPT ![s] = [i \in fetching[s].issues |-> annotated[s][i].hasUpvoted]]
  /\ fetching' = [fetching EXCEPT ![s].issues = NoFetch]
  /\ annotated' = [annotated EXCEPT ![s] = [i \in IssueIds |-> NotAnnotated]]
  /\ UNCHANGED <<issues, nextId, upvotes, now, toast, delStep, deletingId,
                 submitVars, mine, roleVars, feed, card, dashboard>>

\* ------------------------------------------------------- specifications
\* The whole portal.
Next ==
  \/ Tick
  \/ \E s \in Sessions, d \in FormDepartments, p \in Photos \cup {NoPhoto}, ok \in BOOLEAN :
       handleSubmitIssue(s, d, p, ok)
  \/ \E s \in Sessions : SubmitInsert(s)
  \/ \E s \in Sessions : RefetchFeed(s)
  \/ \E s \in Sessions : FeedFetchStart(s)
  \/ \E s \in Sessions : FeedFetchFinish(s)
  \/ \E s \in Sessions : MineFetchStart(s)
  \/ \E s \in Sessions : MineFetchFinish(s)
  \/ \E s \in Sessions, i \in IssueIds : handleUpvote(s, i)
  \/ \E s \in Sessions, i \in IssueIds, st \in Status : HodHandleStatusChange(s, i, st)
  \/ \E s \in Sessions, i \in IssueIds, st \in Status : PrincipalHandleStatusChange(s, i, st)
  \/ \E s \in Sessions, i \in IssueIds : handleDeleteIssue(s, i)
  \/ \E s \in Sessions, i \in IssueIds : DeleteRequest(s, i)
  \/ \E s \in Sessions, i \in IssueIds : DeleteVerify(s, i)
  \/ \E s \in Sessions, r \in Routes : Navigate(s, r)
  \/ \E s \in Sessions, k \in {"hod", "principal"}, ok \in BOOLEAN : RoleCheckDone(s, k, ok)
  \/ \E s \in Sessions : HodProfileQuery(s)
  \/ \E s \in Sessions, ok \in BOOLEAN : HeaderRoleQuery(s, ok)
  \/ \E u \in Users, r \in app_role : AssignRole(u, r)
  \/ \E counts \in CountLists : FeedArrives(counts)
  \/ \E sortBy \in {"upvotes", "recent"} : SortFeed(sortBy)
  \/ \E t \in DayOffsets, e \in Elapsed : RenderCard(t, e)
  \/ \E s \in Sessions : HodIssuesQuery(s)
  \/ \E s \in Sessions : PrincipalIssuesQuery(s)
  \/ \E s \in Sessions, d \in Departments \cup {"all"} : setSelectedDepartment(s, d)
  \/ \E s \in Sessions, i \in IssueIds : CountLookup(s, i)
  \/ \E s \in Sessions, i \in IssueIds : ViewerLookup(s, i)
  \/ \E s \in Sessions : FeedResult(s)

Spec == Init /\ [][Next]_vars

\* The feed and the upvote toggle: the student's two tabs and the HoD vote.
VoteSessions == {"student_tab1", "student_tab2", "hod_tab"}

NextVote ==
  \/ \E s \in VoteSessions, d \in FormDepartments : handleSubmitIssue(s, d, NoPhoto, TRUE)
  \/ \E s \in VoteSessions : RefetchFeed(s)
  \/ \E s \in VoteSessions, i \in IssueIds : handleUpvote(s, i)

SpecVote == Init /\ [][NextVote]_vars

\* The dashboards: every kind of actor sends status updates.
StatusSessions == {"student_tab1", "hod_tab", "principal_tab"}
StatusReporters == {"student_tab1"}

NextStatus ==
  \/ Tick
  \/ \E s \in StatusReporters, d \in FormDepartments : handleSubmitIssue(s, d, NoPhoto, TRUE)
  \/ \E s \in StatusSessions, i \in IssueIds, st \in Status : HodHandleStatusChange(s, i, st)
  \/ \E s \in StatusSessions, i \in IssueIds, st \in Status : PrincipalHandleStatusChange(s, i, st)

SpecStatus == Init /\ [][NextStatus]_vars

\* The profile page: reporters and others delete reports.
DeleteSessions == {"student_tab1", "student_tab2", "hod_tab"}

NextDelete ==
  \/ \E s \in DeleteSessions, d \in FormDepartments : handleSubmitIssue(s, d, NoPhoto, TRUE)
  \/ \E s \in DeleteSessions, i \in IssueIds : handleDeleteIssue(s, i)
  \/ \E s \in DeleteSessions, i \in IssueIds : DeleteRequest(s, i)
  \/ \E s \in DeleteSessions, i \in IssueIds : DeleteVerify(s, i)

SpecDelete == Init /\ [][NextDelete]_vars

\* The report form, with and without a photo, with the bucket reachable or not.
SubmitSessions == {"student_tab1", "hod_tab"}

NextSubmit ==
  \/ Tick
  \/ \E s \in SubmitSessions, d \in FormDepartments, p \in Photos \cup {NoPhoto}, ok \in BOOLEAN :
       handleSubmitIssue(s, d, p, ok)
  \/ \E s \in SubmitSessions : SubmitInsert(s)

SpecSubmit == Init /\ [][NextSubmit]_vars

\* One browser of the student: the home page, the profile page, their two
\* query caches, and the delete of an own report.
CacheSessions == {"student_tab1"}
CacheRoutes == {"/", "/profile"}

NextCache ==
  \/ \E s \in CacheSessions, d \in FormDepartments : handleSubmitIssue(s, d, NoPhoto, TRUE)
  \/ \E s \in CacheSessions, r \in CacheRoutes : Navigate(s, r)
  \/ \E s \in CacheSessions : FeedFetchStart(s)
  \/ \E s \in CacheSessions : FeedFetchFinish(s)
  \/ \E s \in CacheSessions : MineFetchStart(s)
  \/ \E s \in CacheSessions : MineFetchFinish(s)
  \/ \E s \in CacheSessions, i \in IssueIds : handleUpvote(s, i)
  \/ \E s \in CacheSessions, i \in IssueIds : handleDeleteIssue(s, i)
  \/ \E s \in CacheSessions, i \in IssueIds : DeleteRequest(s, i)
  \/ \E s \in CacheSessions, i \in IssueIds : DeleteVerify(s, i)

SpecCache == Init /\ [][NextCache]_vars

\* The account that signed up, the roles an administrator gives it, the
\* dashboards' role checks and the header.
RoleSessions == {"newcomer_tab"}

NextRoles ==
  \/ \E s \in RoleSessions, r \in Routes : Navigate(s, r)
  \/ \E s \in RoleSessions, k \in {"hod", "principal"}, ok \in BOOLEAN : RoleCheckDone(s, k, ok)
  \/ \E s \in RoleSessions : HodProfileQuery(s)
  \/ \E s \in RoleSessions, ok \in BOOLEAN : HeaderRoleQuery(s, ok)
  \/ \E s \in RoleSessions, r \in app_role : AssignRole(auth_uid(s), r)

SpecRoles == Init /\ [][NextRoles]_vars

\* The sort of a feed query, on every short list of rows.
NextSort ==
  \/ \E counts \in CountLists : FeedArrives(counts)
  \/ \E sortBy \in {"upvotes", "recent"} : SortFeed(sortBy)

SpecSort == Init /\ [][NextSort]_vars

\* The issue card's days left, for reports made and cards rendered at
\* several times of the day.
NextDays ==
  \E t \in DayOffsets, e \in Elapsed : RenderCard(t, e)

SpecDays == Init /\ [][NextDays]_vars

\* The two dashboards' lists: a student reports, the HoD and the principal
\* open their dashboards, filter and move statuses.
DashSessions == {"hod_tab", "principal_tab"}

NextDash ==
  \/ \E d \in FormDepartments : handleSubmitIssue("student_tab1", d, NoPhoto, TRUE)
  \/ \E s \in DashSessions : Navigate(s, DashRoute(CHOOSE k \in {"hod", "principal"} :
                                                    RoleRow(TestUserRoles, auth_uid(s), k)))
  \/ \E s \in DashSessions, k \in {"hod", "principal"} : RoleCheckDone(s, k, TRUE)
  \/ \E s \in DashSessions : HodProfileQuery(s)
  \/ \E s \in DashSessions : HodIssuesQuery(s)
  \/ \E s \in DashSessions : PrincipalIssuesQuery(s)
  \/ \E s \in DashSessions, d \in Departments \cup {"all"} : setSelectedDepartment(s, d)
  \/ \E i \in IssueIds, st \in Status : PrincipalHandleStatusChange("principal_tab", i, st)

SpecDash == Init /\ [][NextDash]_vars

\* Users race on one issue of CS: the reporter deletes it while the HoD and
\* the reporter vote and the HoD acknowledges it.
RaceSessions == {"student_tab1", "hod_tab"}

NextRace ==
  \/ handleSubmitIssue("student_tab1", "CS", NoPhoto, TRUE)
  \/ \E s \in RaceSessions : RefetchFeed(s)
  \/ \E s \in RaceSessions, i \in IssueIds : handleUpvote(s, i)
  \/ \E s \in RaceSessions, i \in IssueIds : handleDeleteIssue(s, i)
  \/ \E s \in RaceSessions, i \in IssueIds : DeleteRequest(s, i)
  \/ \E s \in RaceSessions, i \in IssueIds : DeleteVerify(s, i)
  \/ \E i \in IssueIds : HodHandleStatusChange("hod_tab", i, "acknowledged")

SpecRace == Init /\ [][NextRace]_vars

\* A feed fetch of the student's first tab, lookup by lookup, while the
\* student's second tab toggles upvotes.
LookupSessions == {"student_tab1"}
ToggleSessions == {"student_tab2"}

NextLookup ==
  \/ handleSubmitIssue("student_tab1", "CS", NoPhoto, TRUE)
  \/ \E s \in LookupSessions : FeedFetchStart(s)
  \/ \E s \in LookupSessions, i \in IssueIds : CountLookup(s, i)
  \/ \E s \in LookupSessions, i \in IssueIds : ViewerLookup(s, i)
  \/ \E s \in LookupSessions : FeedResult(s)
  \/ \E s \in ToggleSessions : RefetchFeed(s)
  \/ \E s \in ToggleSessions, i \in IssueIds : handleUpvote(s, i)

SpecLookup == Init /\ [][NextLookup]_vars

\* ================================================================ claims
\* What the claims call an authorized actor: a principal, or an HoD whose
\* own profile department is the issue's department.
PermittedActor(u, row) ==
  \/ [user_id |-> u, role |-> "principal"] \in user_roles
  \/ /\ [user_id |-> u, role |-> "hod"] \in user_roles
     /\ profiles[u].department_id = row.department_id

Rank(st) == CASE st = "pending" -> 0 [] st = "acknowledged" -> 1 [] st = "work_done" -> 2

Kept == DOMAIN issues \cap DOMAIN issues'

\* C1: in every reachable state the upvotes table holds at most one row for
\* each (issue_id, user_id) pair, whatever toggles were interleaved, from
\* stale views included.
C1_AtMostOneRowPerPair == \A p \in DOMAIN upvotes : upvotes[p] <= 1

\* a stale tab's insert ran into the unique constraint while the row exists
C1_Witness ==
  /\ toast.title = "Error"
  /\ toast.description = DuplicateKey
  /\ \E i \in DOMAIN issues : upvotes[<<i, auth_uid(toast.session)>>] = 1

\* C2: for every issue, resolved_at is non-null if and only if the status
\* is work_done.
C2_ResolvedIffWorkDone ==
  \A i \in DOMAIN issues :
    (issues[i].resolved_at # NullTime) <=> (issues[i].status = "work_done")

\* C3: a status update sent by an actor who is neither a principal nor the
\* HoD of the issue's department leaves the issue's row (status and
\* resolved_at with it) as it was.
C3_UnauthorizedUpdateChangesNothing ==
  [][\A s \in Sessions, i \in DOMAIN issues :
       (~PermittedActor(auth_uid(s), issues[i]) /\ toast'.session = s)
       => \A st \in Status :
            (HodHandleStatusChange(s, i, st) \/ PrincipalHandleStatusChange(s, i, st))
            => /\ i \in DOMAIN issues'
               /\ issues'[i].status = issues[i].status
               /\ issues'[i].resolved_at = issues[i].resolved_at]_vars

\* the HoD of CS has sent a status update for an issue of EC
C3_Witness ==
  /\ toast.session = "hod_tab"
  /\ toast.title = "Status Updated"
  /\ DOMAIN issues # {}
  /\ \A i \in DOMAIN issues :
       /\ issues[i].department_id = "EC"
       /\ issues[i].status = "pending"
       /\ issues[i].resolved_at = NullTime

\* C4: a status update by an unauthorized actor ends in the notice
\* 'Update Failed', never in 'Status Updated'.
C4_UnauthorizedUpdateFails ==
  [][\A s \in Sessions, i \in DOMAIN issues :
       (~PermittedActor(auth_uid(s), issues[i]) /\ toast'.session = s)
       => \A st \in Status :
            (HodHandleStatusChange(s, i, st) \/ PrincipalHandleStatusChange(s, i, st))
            => toast'.title = "Update Failed"]_vars

C6_DoubleToggleRestores ==
  \A s \in Sessions :
    \A i \in DOMAIN view[s] :
      LET u == auth_uid(s)
          once == UpvoteRequest(upvotes, view[s][i], i, u).rows
          twice == UpvoteRequest(once, view[s][i], i, u).rows
      IN /\ hasUpvoted(twice, i, u) = hasUpvoted(upvotes, i, u)
         /\ upvoteCount(twice, i) = upvoteCount(upvotes, i)

\* C7: the toggle deletes the pair's row exactly when the store holds one
\* at the time of the call and inserts one exactly when it holds none,
\* whatever the caller's view showed.
C7_ToggleFollowsStore ==
  [][\A s \in Sessions, i \in IssueIds :
       handleUpvote(s, i)
       => LET p == <<i, auth_uid(s)>>
          IN upvotes'[p] = IF upvotes[p] >= 1 THEN 0 ELSE 1]_vars

\* C8: an insert that hits unique(issue_id, user_id) creates no second row
\* and the caller shows no error notice.
C8_DuplicateInsertIsSuccess ==
  [][\A s \in Sessions, i \in IssueIds :
       (/\ handleUpvote(s, i)
        /\ ~view[s][i]
        /\ upvotes[<<i, auth_uid(s)>>] >= 1)
       => /\ upvotes'[<<i, auth_uid(s)>>] = upvotes[<<i, auth_uid(s)>>]
          /\ toast'.title # "Error"]_vars

\* C9: a write that makes an issue's status work_done sets resolved_at to
\* the time of the write in the same step, and resolved_at never changes
\* in a step that does not write status work_done.
C9_WorkDoneWriteIsAtomic ==
  [][\A i \in Kept :
       /\ (issues'[i].status = "work_done" /\ issues[i].status # "work_done")
            => issues'[i].resolved_at = now
       /\ issues'[i].resolved_at # issues[i].resolved_at
            => (issues'[i].status = "work_done" /\ issues'[i].resolved_at = now)]_vars

\* an issue has just been set to work_done
C9_Witness ==
  /\ toast.title = "Status Updated"
  /\ \E i \in DOMAIN issues :
       issues[i].status = "work_done" /\ issues[i].resolved_at = now

\* C10 as claimed: the status only moves forward, pending -> acknowledged ->
\* work_done, and work_done is never left.
C10_StatusOnlyMovesForward ==
  [][\A i \in Kept : Rank(issues'[i].status) >= Rank(issues[i].status)]_vars

\* C10 as amended: an issue starts at pending; every later change of its
\* status, backward ones and those leaving work_done included, is made by
\* the status update of a principal or of the HoD of the issue's department.
C10_StatusMovesOnlyByAuthorizedUpdate ==
  [][/\ \A i \in DOMAIN issues' \ DOMAIN issues : issues'[i].status = "pending"
     /\ \A i \in Kept :
          issues'[i].status # issues[i].status
          => \E s \in Sessions :
               /\ PermittedActor(auth_uid(s), issues[i])
               /\ \/ HodHandleStatusChange(s, i, issues'[i].status)
                  \/ PrincipalHandleStatusChange(s, i, issues'[i].status)]_vars

\* an issue that was work_done is pending or acknowledged again
C10_Witness ==
  \E i \in DOMAIN issues :
    issues[i].status # "work_done" /\ issues[i].resolved_at # NullTime

\* C11: an authorized actor (a principal, or the HoD of the issue's
\* department) can set every status from every status: the update is offered
\* for each of the three values whatever the current one is, and the step
\* leaves the issue with the value chosen, pending -> work_done included.
C11_AnyStatusSettable ==
  /\ [](\A s \in StatusSessions, i \in DOMAIN issues, st \in Status :
          PermittedActor(auth_uid(s), issues[i])
          => /\ ENABLED HodHandleStatusChange(s, i, st)
             /\ ENABLED PrincipalHandleStatusChange(s, i, st))
  /\ [][\A s \in Sessions, i \in DOMAIN issues :
          (PermittedActor(auth_uid(s), issues[i]) /\ toast'.session = s)
          => \A st \in Status :
               (HodHandleStatusChange(s, i, st) \/ PrincipalHandleStatusChange(s, i, st))
               => (i \in DOMAIN issues' /\ issues'[i].status = st)]_vars

\* the HoD of CS has set an issue of CS to work_done on the day it was reported
C11_Witness ==
  /\ toast.session = "hod_tab"
  /\ toast.title = "Status Updated"
  /\ \E i \in DOMAIN issues :
       /\ issues[i].department_id = "CS"
       /\ issues[i].status = "work_done"
       /\ issues[i].resolved_at = issues[i].reported_at

\* the insertion steps of the report form
Submitted(s) ==
  \/ \E d \in FormDepartments : handleSubmitIssue(s, d, NoPhoto, TRUE)
  \/ SubmitInsert(s)

Created == DOMAIN issues' \ DOMAIN issues

\* C12: every row the report form creates starts with status pending,
\* is_priority false, resolved_at null and deadline = reported_at + 30 days,
\* and a successful submission creates exactly one row.
C12_NewIssueDefaults ==
  [][/\ \A i \in Created :
          /\ issues'[i].status = "pending"
          /\ issues'[i].is_priority = FALSE
          /\ issues'[i].resolved_at = NullTime
          /\ issues'[i].reported_at = now
          /\ issues'[i].deadline = issues'[i].reported_at + 30
     /\ \A s \in Sessions :
          Submitted(s) => (Cardinality(Created) = 1 /\ toast'.title = "Issue reported")
     /\ Created # {} => \E s \in Sessions : Submitted(s)]_vars

\* a report with a photo has been submitted
C12_Witness ==
  /\ toast.title = "Issue reported"
  /\ \E i \in DOMAIN issues :
       /\ issues[i].reporter_id = auth_uid(toast.session)
       /\ issues[i].photo_url # NullUrl
       /\ issues[i].status = "pending"

\* C13: with a photo attached, a failed upload ends the submission with an
\* error notice and no row is inserted for it, then or later; after a
\* successful upload the row inserted carries the public URL of the object
\* that upload stored.
C13_UploadFailureAborts ==
  /\ [](\A s \in Sessions : uploaded[s] # NoUpload => uploaded[s].fileName \in storage)
  /\ [][/\ \A s \in Sessions, d \in FormDepartments, p \in Photos, ok \in BOOLEAN :
             (handleSubmitIssue(s, d, p, ok) /\ storage' = storage)
             => /\ issues' = issues
                /\ uploaded'[s] = NoUpload
                /\ toast'.session = s
                /\ toast'.title = "Error"
        /\ \A s \in Sessions :
             SubmitInsert(s)
             => \A i \in Created :
                  /\ Resolves(storage', issues'[i].photo_url)
                  /\ issues'[i].photo_url[2] = uploaded[s].fileName
        /\ \A i \in Created :
             issues'[i].photo_url # NullUrl => \E s \in Sessions : SubmitInsert(s)]_vars

\* the bucket could not be reached: an error notice, and neither an object
\* nor a row nor a submission under way
C13_Witness ==
  /\ toast.title = "Error"
  /\ toast.description = StorageError
  /\ issues = << >>
  /\ nextId = 0
  /\ storage = {}
  /\ uploaded[toast.session] = NoUpload

\* C14: once the delete of an issue by a session has ended with the row
\* gone, neither the session's cached feed nor its cached own list holds the
\* issue, whatever fetches were under way or start later.
C14_DeletedStaysOutOfCaches ==
  \A s \in CacheSessions, i \in KnownIds \ DOMAIN issues :
    delStep[s][i] = "idle" => (i \notin DOMAIN view[s] /\ i \notin DOMAIN mine[s])

Pos(rows, id) == CHOOSE k \in 1 .. Len(rows) : rows[k].id = id

\* C16: sorted by upvotes, the feed holds the rows fetched, ordered by
\* upvoteCount descending, and rows of equal upvoteCount keep the order in
\* which they were fetched.
C16_SortIsDescendingAndStable ==
  [][SortFeed("upvotes")
     => /\ Len(feed') = Len(feed)
        /\ {feed'[k] : k \in 1 .. Len(feed')} = {feed[k] : k \in 1 .. Len(feed)}
        /\ \A k \in 1 .. Len(feed') - 1 : feed'[k].upvoteCount >= feed'[k + 1].upvoteCount
        /\ \A a, b \in 1 .. Len(feed) :
             (a < b /\ feed[a].upvoteCount = feed[b].upvoteCount)
             => Pos(feed', feed[a].id) < Pos(feed', feed[b].id)]_vars

\* four rows fetched with counts 1, 2, 2, 3 have been sorted: the count-3
\* row came last and is first, the two count-2 rows follow in fetch order
C16_Witness ==
  /\ Len(feed) = 4
  /\ feed[1] = [id |-> 4, upvoteCount |-> 3]
  /\ feed[2] = [id |-> 2, upvoteCount |-> 2]
  /\ feed[3] = [id |-> 3, upvoteCount |-> 2]
  /\ feed[4] = [id |-> 1, upvoteCount |-> 1]

NoRoleRows(u) == ~ \E r \in user_roles : r.user_id = u

\* C18: a user without role rows never sees the content of either
\* dashboard: hasHodRole and hasPrincipalRole stay false, the answer of each
\* role check sends the user to '/' with the notice 'Access Denied', and
\* the issue queries of a dashboard are enabled only for a user whose
\* matching role row exists.
C18_NoRoleNoDashboard ==
  /\ [](\A s \in Sessions :
          /\ NoRoleRows(auth_uid(s))
               => /\ ~hasRole[s].hod
                  /\ ~hasRole[s].principal
                  /\ ~DashboardContent(s, "hod")
                  /\ ~DashboardContent(s, "principal")
          /\ HodIssuesEnabled(s) => has_role(auth_uid(s), "hod")
          /\ PrincipalIssuesEnabled(s) => has_role(auth_uid(s), "principal"))
  /\ [][\A s \in Sessions, k \in {"hod", "principal"} :
          (NoRoleRows(auth_uid(s)) /\ \E ok \in BOOLEAN : RoleCheckDone(s, k, ok))
          => /\ location'[s] = "/"
             /\ toast' = Notice(s, "Access Denied", AccessDenied(k))]_vars

\* the account without roles opened a dashboard and was sent back
C18_Witness ==
  /\ NoRoleRows("newcomer")
  /\ toast.session = "newcomer_tab"
  /\ toast.title = "Access Denied"
  /\ location["newcomer_tab"] = "/"
  /\ roleCheck["newcomer_tab"] = {}

\* C19: whatever roles a user holds, several included, the header's role
\* query makes the HoD link show exactly when hod is among them and the
\* Principal link exactly when principal is among them.
C19_HeaderLinksFollowRoles ==
  [][\A s \in Sessions :
       HeaderRoleQuery(s, TRUE)
       => /\ (userRole'[s] = "hod") <=> has_role(auth_uid(s), "hod")
          /\ (userRole'[s] = "principal") <=> has_role(auth_uid(s), "principal")]_vars

C21_OnlyOwnerTouchesUpvote ==
  [][\A i \in IssueIds, u \in Users :
       upvotes'[<<i, u>>] # upvotes[<<i, u>>]
       => \E s \in Sessions :
            /\ auth_uid(s) = u
            /\ handleUpvote(s, i) \/ DeleteRequest(s, i)]_vars

\* C21: the upvote row of a user U is created only by a toggle of U, and
\* removed only by a toggle of U or together with its issue, when the
\* issue's reporter deletes the issue.
C21_UpvoteChangesByOwnerOrCascade ==
  [][\A i \in IssueIds, u \in Users :
       upvotes'[<<i, u>>] # upvotes[<<i, u>>]
       => \/ \E s \in Sessions : auth_uid(s) = u /\ handleUpvote(s, i)
          \/ /\ upvotes'[<<i, u>>] = 0
             /\ i \in DOMAIN issues \ DOMAIN issues'
             /\ \E s \in Sessions :
                  DeleteRequest(s, i) /\ issues[i].reporter_id = auth_uid(s)]_vars

\* the student's delete of the own report has gone through; the HoD's feed
\* still shows the HoD's upvote of it, and the row is gone
C21_Witness ==
  \E i \in KnownIds :
    /\ i \notin DOMAIN issues
    /\ delStep["student_tab1"][i] = "verify"
    /\ i \in DOMAIN view["hod_tab"]
    /\ view["hod_tab"][i]
    /\ upvotes[<<i, "hod">>] = 0

\* C22: the HoD's issues query returns exactly the rows whose department_id
\* is the department of the HoD's own profile; the principal's issues query
\* returns every row under the filter 'all' and exactly the rows of the
\* selected department otherwise.
C22_DashboardLists ==
  [][\A s \in Sessions :
       /\ HodIssuesQuery(s)
            => dashboard'[s].hodIssues =
                 [i \in {j \in DOMAIN issues :
                           issues[j].department_id = profiles[auth_uid(s)].department_id}
                    |-> issues[i]]
       /\ PrincipalIssuesQuery(s)
            => dashboard'[s].principalIssues =
                 IF dashboard[s].selectedDepartment = "all"
                   THEN issues
                   ELSE [i \in {j \in DOMAIN issues :
                                  issues[j].department_id = dashboard[s].selectedDepartment}
                           |-> issues[i]]]_vars

\* an issue of EC is in the store and in the principal's list under 'all',
\* while the list the HoD of CS has fetched since the report is empty
C22_Witness ==
  \E i \in DOMAIN issues :
    /\ issues[i].department_id = "EC"
    /\ issues[i].status = "work_done"
    /\ dashboard["principal_tab"].selectedDepartment = "all"
    /\ i \in DOMAIN dashboard["principal_tab"].principalIssues
    /\ dashboard["principal_tab"].principalIssues[i].status = "work_done"
    /\ HodIssuesEnabled("hod_tab")
    /\ i \notin DOMAIN dashboard["hod_tab"].hodIssues

\* C23: for an issue whose deadline is its report time plus 30 days, the
\* days left on its card are 30 at the report time and one less for every
\* full 24 hours passed since: 30 - floor(elapsed / 24 h).
C23_DaysRemaining ==
  card.rendered
  => /\ card.daysRemaining = ThirtyDays - (card.elapsed \div DayLength)
     /\ card.elapsed = 0 => card.daysRemaining = ThirtyDays

\* a card rendered a day and a second after a report made at noon
C23_Witness ==
  /\ card.rendered
  /\ card.reported_at = DayLength \div 2
  /\ card.elapsed = DayLength + 1
  /\ card.daysRemaining = ThirtyDays - 1

\* C24: every mutation that fails ends in an error notice with its
\* in-progress flag reset: a rejected upvote insert, a failed upload, a
\* delete by somebody else or one that did not apply, and a status change
\* that changes no row, the policies hiding the row or the row being gone.
C24_FailedMutationNotifies ==
  [][\A s \in Sessions :
       toast'.session = s =>
       /\ \A i \in IssueIds :
            (handleUpvote(s, i)
             /\ UpvoteRequest(upvotes, view[s][i], i, auth_uid(s)).error # NoError)
            => toast'.title = "Error"
       /\ \A d \in FormDepartments, p \in Photos :
            (handleSubmitIssue(s, d, p, FALSE)
            => toast'.title = "Error" /\ uploaded'[s] = NoUpload)
       /\ \A i \in IssueIds :
            (handleDeleteIssue(s, i) /\ NotTheReporter(issues, auth_uid(s), i))
            => toast'.title = "Delete failed" /\ deletingId'[s] = NoIssue
       /\ \A i \in DOMAIN issues :
            DeleteVerify(s, i)
            => toast'.title = "Delete failed" /\ deletingId'[s] = NoIssue
       /\ \A i \in KnownIds, st \in Status :
            ((i \notin DOMAIN issues \/ ~PermittedActor(auth_uid(s), issues[i]))
             /\ (HodHandleStatusChange(s, i, st) \/ PrincipalHandleStatusChange(s, i, st)))
            => toast'.title = "Update Failed"]_vars

C26_ResolvedAtKept ==
  [][\A s \in Sessions, i \in DOMAIN issues, st \in {"pending", "acknowledged"} :
       (toast'.session = s
        /\ (HodHandleStatusChange(s, i, st) \/ PrincipalHandleStatusChange(s, i, st)))
       => /\ i \in DOMAIN issues'
          /\ issues'[i].resolved_at = issues[i].resolved_at]_vars

\* an issue resolved earlier was set back to acknowledged later, and still
\* carries the time it was resolved at
C26_Witness ==
  /\ toast.title = "Status Updated"
  /\ \E i \in DOMAIN issues :
       /\ issues[i].status = "acknowledged"
       /\ issues[i].resolved_at # NullTime
       /\ issues[i].updated_at > issues[i].resolved_at

\* C27: a dashboard role check that returns no data, because the query
\* failed or because no role row matched, denies: the notice 'Access
\* Denied', the redirect to '/', and the dashboard's role flag stays false;
\* the header's role query that fails yields no role.
C27_RoleCheckFailsClosed ==
  [][\A s \in Sessions :
       /\ \A k \in {"hod", "principal"}, ok \in BOOLEAN :
            ((~ok \/ ~RoleRow(user_roles, auth_uid(s), k)) /\ RoleCheckDone(s, k, ok))
            => /\ location'[s] = "/"
               /\ toast' = Notice(s, "Access Denied", AccessDenied(k))
               /\ ~hasRole'[s][k]
               /\ ~DashboardContent(s, k)'
       /\ (userRole[s] # "null" /\ HeaderRoleQuery(s, FALSE)) => userRole'[s] = "null"]_vars

\* the account holds the hod role and stands on '/', denied, with no check
\* under way and the HoD flag false
C27_Witness ==
  /\ RoleRow(user_roles, "newcomer", "hod")
  /\ toast = Notice("newcomer_tab", "Access Denied", AccessDenied("hod"))
  /\ location["newcomer_tab"] = "/"
  /\ roleCheck["newcomer_tab"] = {}
  /\ ~hasRole["newcomer_tab"].hod

\* C28: whatever deletes, toggles and status updates interleave on an
\* issue, every upvote row references an issue in the store, and an issue
\* that has left the store is never in it again.
C28_NoOrphansNoReturn ==
  /\ [](\A p \in DOMAIN upvotes : upvotes[p] >= 1 => p[1] \in DOMAIN issues)
  /\ [][\A i \in KnownIds \ DOMAIN issues : i \notin DOMAIN issues']_vars

\* the HoD's upvote, sent from a feed that still showed the issue, reached
\* the store after the delete and was rejected
C28_Witness ==
  /\ toast = Notice("hod_tab", "Error", ForeignKey)
  /\ KnownIds # {}
  /\ DOMAIN issues = {}
  /\ \A p \in DOMAIN upvotes : upvotes[p] = 0

\* C29: in every row a feed fetch returns, hasUpvoted implies
\* upvoteCount >= 1, also when toggles fall between the fetch's two lookups.
C29_UpvotedImpliesCounted ==
  \A s \in Sessions, i \in IssueIds :
    (annotated[s][i].step = "done" /\ annotated[s][i].hasUpvoted)
    => annotated[s][i].upvoteCount >= 1

RECURSIVE SumOf(_, _)
SumOf(ds, field) ==
  IF DOMAIN ds = {} THEN 0
  ELSE LET d == CHOOSE x \in DOMAIN ds : TRUE
       IN ds[d][field] + SumOf([e \in DOMAIN ds \ {d} |-> ds[e]], field)

\* C30: on the principal's dashboard under the filter 'all', the totals of
\* the Department Overview add up to 'Total Issues' and its pending counts
\* to 'Pending'.
C30_DepartmentTotalsAddUp ==
  \A s \in Sessions :
    (DashboardContent(s, "principal") /\ dashboard[s].selectedDepartment = "all")
    => LET rows == dashboard[s].principalIssues
           ds == departmentStats(PrincipalDepartments, rows)
       IN /\ SumOf(ds, "total") = stats(rows).total
          /\ SumOf(ds, "pending") = stats(rows).pending

====
